---- MODULE Spec2Model ----
(***************************************************************************)
(* hank-rust-pdk, src/lib.rs: the global plugin state HANK (an             *)
(* RwLock<Option<Hank>>), the handler registry, the scheduled-job table    *)
(* and the entry points the host calls.                                    *)
(*                                                                         *)
(* An Option<T> is a sequence of length 0 (None) or 1 (Some(x)).  A        *)
(* thread of control is a record: the entry point it is in, its position,  *)
(* the guard that entry point holds, and the Hank::cron / Hank::one_shot   *)
(* call it is in, if any.  Handler and job bodies are code of the plugin   *)
(* author: while one runs it may call Hank::cron or Hank::one_shot any     *)
(* number of times and then return.  Hank::db_query and Hank::db_fetch     *)
(* touch no plugin state: a call of one is the record db.  The stateless   *)
(* fire-and-forget stubs and panics of handler and job bodies are part of  *)
(* SpecPlugin.                                                             *)
(***************************************************************************)
EXTENDS Integers, Sequences, FiniteSets, TLC

\* ---- bounds -------------------------------------------------------------
MaxUuid == 2         \* identifiers uuid::Uuid::new_v4 hands out
MaxRegs == 2         \* calls of register_X
MaxRows == 2         \* rows of a result set

Uuids == 1..MaxUuid
ConcThreads == {1, 2}              \* the threads of control of SpecConc
Metadatas == {"mA", "mB"}          \* metadata descriptors (opaque), one per plugin
Fn0 == {"f1", "f2"}                \* values of type fn()
FnMsg == {"m1"}              \* values of type fn(Message)
FnCmd == {"c1"}                    \* values of type fn(CommandContext, Message)

None == <<>>
Some(x) == <<x>>
Unwrap(o) == o[1]

\* ---- state ----------------------------------------------------------------
VARIABLES
    HANK,       \* the value inside the static: Option<Hank>
    lock,       \* the RwLock of the static: who holds a write / read guard
    poisoned,   \* the RwLock's poison flag
    self,       \* the Hank the plugin author is constructing: Option<Hank>
    th,         \* per thread of control: where it is
    nextUuid,   \* identifiers handed out so far by uuid::Uuid::new_v4, plus 1
    used,       \* the descriptors Hank::new was given, the number of register_X calls
    db          \* the call of Hank::db_query / Hank::db_fetch in progress or ended

vars == <<HANK, lock, poisoned, self, th, nextUuid, used, db>>

\* the threads of control
Threads == DOMAIN th

\* struct Hank, #[derive(Default)]
DefaultHank ==
    [metadata |-> "default",
     install_handler |-> None,
     initialize_handler |-> None,
     chat_message_handler |-> None,
     chat_command_handler |-> None,
     scheduled_jobs |-> <<>>]

\* Hank::new
New(metadata) == [DefaultHank EXCEPT !.metadata = metadata]

NoArg == [ctx |-> FALSE, msg |-> FALSE, sj |-> "none", id |-> 0]
\* a thread that is in no outbound stub; res is how its last call of one ended
NoStub == [pc |-> "none", kind |-> "none", job |-> "none", uuid |-> 0, res |-> "none"]

\* a thread of control that is in no call
Idle ==
    [ep |-> "idle", pc |-> "idle", arg |-> NoArg, guard |-> "none",
     held |-> None, invoked |-> None, result |-> "none", stub |-> NoStub]

\* no call of Hank::db_query / Hank::db_fetch has been made
NoCall == [pc |-> "idle", fn |-> "none", output |-> None, ret |-> None]

\* LazyLock::new(|| RwLock::new(None))
Init ==
    /\ HANK = None
    /\ lock = [writer |-> 0, readers |-> {}]
    /\ poisoned = FALSE
    /\ self = None
    /\ th = [t \in {1} |-> Idle]
    /\ nextUuid = 1
    /\ used = [new |-> {}, reg |-> 0]
    /\ db = NoCall

\* ---- the RwLock ---------------------------------------------------------
CanReadAlways == TRUE

\* RwLock::read may take the lock: no writer
CanRead == lock.writer = 0
\* RwLock::write may take the lock: no writer and no reader
CanWrite == lock.writer = 0 /\ lock.readers = {}

\* the lock after thread t has dropped its guard `g`
Dropped(l, t, g) ==
    IF g = "read" THEN [l EXCEPT !.readers = @ \ {t}]
    ELSE IF g = "write" THEN [l EXCEPT !.writer = 0]
    ELSE l

\* thread t is in no entry point and in no stub
Free(t) == th[t].pc \in {"idle", "done"} /\ th[t].stub.pc = "none"

\* the record of a call that has ended with `result`; the message and the
\* context of its payload are gone
Finished(r, result) ==
    [r EXCEPT !.pc = "done", !.arg.ctx = FALSE, !.arg.msg = FALSE, !.guard = "none",
              !.held = None, !.result = result]

\* the record of a call of entry point ep that has arrived
Begun(ep, arg) == [Idle EXCEPT !.ep = ep, !.pc = "lock", !.arg = arg]

\* a panic in thread t, which holds its entry point's guard and, when
\* stubGuard is "write", the guard of Hank::cron / Hank::one_shot: unwinding
\* drops the guards, a write guard dropped while panicking poisons the lock,
\* and the entry point the thread is in (if any) is aborted
Panic(t, stubGuard, res) ==
    /\ lock' = Dropped(Dropped(lock, t, th[t].guard), t, stubGuard)
    /\ poisoned' = (poisoned \/ th[t].guard = "write" \/ stubGuard = "write")
    /\ th' = [th EXCEPT ![t] =
                IF th[t].pc \in {"idle", "done"}
                THEN [@ EXCEPT !.stub = [NoStub EXCEPT !.res = res]]
                ELSE [Finished(@, "abort") EXCEPT
                         !.stub = IF th[t].stub.pc = "none" THEN th[t].stub
                                  ELSE [NoStub EXCEPT !.res = res]]]

\* ---- construction: Hank::new, register_X, start ---------------------------
\* the plugin author's code outside any handler (thread t is in no call)
\* constructs a plugin, each with a descriptor of its own
HankNew(t, m) ==
    /\ Free(t)
    /\ m \notin used.new
    /\ self' = Some(New(m))
    /\ used' = [used EXCEPT !.new = @ \cup {m}]
    /\ UNCHANGED <<HANK, lock, poisoned, th, nextUuid, db>>

RegisteredIfUnset(t, field, h) ==
    /\ Free(t)
    /\ self # None
    /\ used.reg < MaxRegs
    /\ self' = IF Unwrap(self)[field] = None
               THEN Some([Unwrap(self) EXCEPT ![field] = Some(h)])
               ELSE self
    /\ used' = [used EXCEPT !.reg = @ + 1]
    /\ UNCHANGED <<HANK, lock, poisoned, th, nextUuid, db>>

\* register_X: `self.X = Some(handler);`
Registered(t, field, h) ==
    /\ Free(t)
    /\ self # None
    /\ used.reg < MaxRegs
    /\ self' = Some([Unwrap(self) EXCEPT ![field] = Some(h)])
    /\ used' = [used EXCEPT !.reg = @ + 1]
    /\ UNCHANGED <<HANK, lock, poisoned, th, nextUuid, db>>

register_install_handler(t, h) == Registered(t, "install_handler", h)
register_initialize_handler(t, h) == Registered(t, "initialize_handler", h)
register_chat_message_handler(t, h) == Registered(t, "chat_message_handler", h)
register_chat_command_handler(t, h) == Registered(t, "chat_command_handler", h)

\* the accessors
metadata(hank) == hank.metadata
install_handler_of_initialize(hank) == hank.initialize_handler
install_handler(hank) == hank.install_handler
initialize_handler(hank) == hank.initialize_handler
chat_message_handler(hank) == hank.chat_message_handler
chat_command_handler(hank) == hank.chat_command_handler

\* Hank::start is called: self is moved into the call
start(t) ==
    /\ Free(t)
    /\ self # None
    /\ self' = None
    /\ th' = [th EXCEPT ![t] = [Begun("start", NoArg) EXCEPT !.held = self]]
    /\ UNCHANGED <<HANK, lock, poisoned, nextUuid, used, db>>

\* Hank::start, `*hank = Some(self); Ok(())`
start_store(t) ==
    /\ th[t].ep = "start" /\ th[t].pc = "locked"
    /\ HANK' = th[t].held
    /\ lock' = Dropped(lock, t, th[t].guard)
    /\ th' = [th EXCEPT ![t] = Finished(@, "ok")]
    /\ UNCHANGED <<poisoned, self, nextUuid, used, db>>

\* ---- taking the lock in an entry point ------------------------------------
ReadEps == {"chat_command", "chat_message", "get_metadata", "install", "initialize"}
WriteEps == {"start", "scheduled_job"}

\* `HANK.read().unwrap()`: waits while a writer holds the lock, panics when
\* the lock is poisoned
read_lock(t) ==
    /\ th[t].pc = "lock" /\ th[t].ep \in ReadEps
    /\ CanRead
    /\ IF poisoned
       THEN /\ th' = [th EXCEPT ![t] = Finished(@, "abort")]
            /\ UNCHANGED lock
       ELSE /\ th' = [th EXCEPT ![t] = [@ EXCEPT !.pc = "locked", !.guard = "read"]]
            /\ lock' = [lock EXCEPT !.readers = @ \cup {t}]
    /\ UNCHANGED <<HANK, poisoned, self, nextUuid, used, db>>

\* `HANK.write().unwrap()` of start and handle_scheduled_job: waits while
\* anyone holds the lock, panics when the lock is poisoned
write_lock(t) ==
    /\ th[t].pc = "lock" /\ th[t].ep \in WriteEps
    /\ CanWrite
    /\ IF poisoned
       THEN /\ th' = [th EXCEPT ![t] = Finished(@, "abort")]
            /\ UNCHANGED lock
       ELSE /\ th' = [th EXCEPT ![t] = [@ EXCEPT !.pc = "locked", !.guard = "write"]]
            /\ lock' = [lock EXCEPT !.writer = t]
    /\ UNCHANGED <<HANK, poisoned, self, nextUuid, used, db>>

\* ---- the entry points -----------------------------------------------------
\* entry point ep is called with payload arg
Called(t, ep, arg) ==
    /\ Free(t)
    /\ th' = [th EXCEPT ![t] = Begun(ep, arg)]
    /\ UNCHANGED <<HANK, lock, poisoned, self, nextUuid, used, db>>

\* `guard.as_ref().expect(..)` and the call of the handler in `slot`, when
\* there is one and the `expect`s on the payload inside the closure pass;
\* `g` is the guard the entry point holds while the handler runs
Dispatched(t, slot, payloadOk, g) ==
    /\ th[t].pc = "locked"
    /\ IF HANK = None \/ (slot # None /\ ~payloadOk)
       THEN Panic(t, "none", "none")
       ELSE /\ poisoned' = poisoned
            /\ IF slot # None
               THEN /\ th' = [th EXCEPT ![t] = [@ EXCEPT !.pc = "run", !.guard = g,
                                                         !.invoked = slot]]
                    /\ lock' = IF g = "none" THEN Dropped(lock, t, th[t].guard) ELSE lock
               ELSE /\ th' = [th EXCEPT ![t] = Finished(@, "ack")]
                    /\ lock' = Dropped(lock, t, th[t].guard)
    /\ UNCHANGED <<HANK, self, nextUuid, used, db>>

\* what `hank` refers to after `guard.as_ref().expect(..)`; the `expect`
\* panics before any use when there is no state
Hank == IF HANK = None THEN DefaultHank ELSE Unwrap(HANK)

handle_chat_command(t, ctx, msg) ==
    Called(t, "chat_command", [NoArg EXCEPT !.ctx = ctx, !.msg = msg])

handle_chat_command_dispatch(t) ==
    /\ th[t].ep = "chat_command"
    /\ Dispatched(t, chat_command_handler(Hank), th[t].arg.ctx /\ th[t].arg.msg, "read")

handle_chat_message(t, msg) ==
    Called(t, "chat_message", [NoArg EXCEPT !.msg = msg])

handle_chat_message_dispatch(t) ==
    /\ th[t].ep = "chat_message"
    /\ Dispatched(t, chat_message_handler(Hank), th[t].arg.msg, "read")

handle_get_metadata(t) == Called(t, "get_metadata", NoArg)

handle_get_metadata_reply(t) ==
    /\ th[t].ep = "get_metadata" /\ th[t].pc = "locked"
    /\ IF HANK = None
       THEN Panic(t, "none", "none")
       ELSE /\ th' = [th EXCEPT ![t] = Finished(@, metadata(Unwrap(HANK)))]
            /\ lock' = Dropped(lock, t, th[t].guard)
            /\ poisoned' = poisoned
    /\ UNCHANGED <<HANK, self, nextUuid, used, db>>

handle_install(t) == Called(t, "install", NoArg)

handle_install_dispatch(t) ==
    /\ th[t].ep = "install"
    /\ Dispatched(t, install_handler(Hank), TRUE, "read")

handle_initialize(t) == Called(t, "initialize", NoArg)

InitializeGuardKept == "read"

\* the guard handle_initialize holds once its inner block has ended
InitializeGuard == "none"

handle_initialize_dispatch(t) ==
    /\ th[t].ep = "initialize"
    /\ Dispatched(t, initialize_handler(Hank), TRUE, InitializeGuard)

\* ---- the scheduled-job entry point ----------------------------------------
scheduled_job_handler_first(hank, uuid) ==
    IF uuid \in DOMAIN hank.scheduled_jobs
    THEN Some(hank.scheduled_jobs[CHOOSE k \in DOMAIN hank.scheduled_jobs :
                                     \A j \in DOMAIN hank.scheduled_jobs : k <= j])
    ELSE None

scheduled_job_handler_any(hank, uuid) ==
    IF DOMAIN hank.scheduled_jobs # {}
    THEN Some(hank.scheduled_jobs[IF uuid \in DOMAIN hank.scheduled_jobs THEN uuid
                                  ELSE CHOOSE k \in DOMAIN hank.scheduled_jobs : TRUE])
    ELSE None

\* Hank::scheduled_job_handler: the job it calls, if any
scheduled_job_handler(hank, uuid) ==
    IF uuid \in DOMAIN hank.scheduled_jobs
    THEN Some(hank.scheduled_jobs[uuid])
    ELSE None

\* handle_scheduled_job is called; a payload without a job returns the
\* default output at once
handle_scheduled_job(t, sj, id) ==
    /\ Free(t)
    /\ LET arg == [NoArg EXCEPT !.sj = sj, !.id = id] IN
       th' = [th EXCEPT ![t] = IF sj = "none"
                               THEN Finished(Begun("scheduled_job", arg), "ack")
                               ELSE Begun("scheduled_job", arg)]
    /\ UNCHANGED <<HANK, lock, poisoned, self, nextUuid, used, db>>

\* `guard.as_ref().expect(..)` with the write guard held, then
\* `hank.scheduled_job_handler(job)`
handle_scheduled_job_dispatch(t) ==
    /\ th[t].ep = "scheduled_job" /\ th[t].pc = "locked"
    /\ IF HANK = None
       THEN /\ Panic(t, "none", "none")
            /\ UNCHANGED <<HANK, self, nextUuid, used, db>>
       ELSE Dispatched(t, scheduled_job_handler(Unwrap(HANK), th[t].arg.id), TRUE, "write")

\* ---- handler and job bodies -----------------------------------------------
\* the handler or job returns; the entry point drops its guard and returns
\* the default output
handler_returns(t) ==
    /\ th[t].pc = "run" /\ th[t].stub.pc = "none"
    /\ th' = [th EXCEPT ![t] = Finished(@, "ack")]
    /\ lock' = Dropped(lock, t, th[t].guard)
    /\ UNCHANGED <<HANK, poisoned, self, nextUuid, used, db>>

\* the handler or job panics: the entry point is aborted, unwinding drops
\* its guard, a write guard dropped while panicking poisons the lock
handler_panics(t) ==
    /\ th[t].pc = "run" /\ th[t].stub.pc = "none"
    /\ Panic(t, "none", "none")
    /\ UNCHANGED <<HANK, self, nextUuid, used, db>>

\* stub calls that may still take an identifier
InFlight == Cardinality({t \in Threads : th[t].stub.pc \in {"lock", "locked"}})

\* Hank::cron / Hank::one_shot is called, from a handler or job body or from
\* plugin code outside any entry point
StubCalled(t, kind, job) ==
    /\ th[t].pc \in {"idle", "done", "run"}
    /\ th[t].stub.pc = "none"
    /\ nextUuid + InFlight <= MaxUuid
    /\ th' = [th EXCEPT ![t].stub = [NoStub EXCEPT !.pc = "lock", !.kind = kind, !.job = job]]
    /\ UNCHANGED <<HANK, lock, poisoned, self, nextUuid, used, db>>

cron(t, job) == StubCalled(t, "cron", job)
one_shot(t, job) == StubCalled(t, "one_shot", job)

\* what RwLock::write does in a thread that already holds a guard of the
\* same lock: it never returns, or it panics
RelockOutcomes == {"deadlock", "panic"}

\* `let mut guard = HANK.write().unwrap();` of Hank::cron / Hank::one_shot
stub_write(t) ==
    /\ th[t].stub.pc = "lock"
    /\ th[t].pc # "deadlock"
    /\ IF th[t].guard # "none"
       THEN \E o \in RelockOutcomes :
              IF o = "deadlock"
              THEN /\ th' = [th EXCEPT ![t] = [@ EXCEPT !.pc = "deadlock",
                                                        !.stub.res = "deadlock"]]
                   /\ UNCHANGED <<lock, poisoned>>
              ELSE Panic(t, "none", "relock")
       ELSE /\ CanWrite
            /\ IF poisoned
               THEN Panic(t, "none", "panic")
               ELSE /\ th' = [th EXCEPT ![t].stub.pc = "locked"]
                    /\ lock' = [lock EXCEPT !.writer = t]
                    /\ poisoned' = poisoned
    /\ UNCHANGED <<HANK, self, nextUuid, used, db>>

NewV4Last == IF nextUuid > 1 THEN nextUuid - 1 ELSE nextUuid

\* uuid::Uuid::new_v4(): an identifier that was not handed out before
NewV4 == nextUuid

AddedRequestFirst(t, kind) ==
    /\ th[t].stub.pc = "locked" /\ th[t].stub.kind = kind
    /\ IF HANK = None
       THEN /\ Panic(t, "write", "panic")
            /\ UNCHANGED <<HANK, nextUuid>>
       ELSE /\ HANK' = HANK
            /\ nextUuid' = nextUuid + 1
            /\ th' = [th EXCEPT ![t].stub = [@ EXCEPT !.pc = "host", !.uuid = NewV4]]
            /\ UNCHANGED <<lock, poisoned>>
    /\ UNCHANGED <<self, used, db>>

\* `guard.as_mut().expect(..)`, then add_cron / add_one_shot up to the insert
Added(t, kind) ==
    /\ th[t].stub.pc = "locked" /\ th[t].stub.kind = kind
    /\ IF HANK = None
       THEN /\ Panic(t, "write", "panic")
            /\ UNCHANGED <<HANK, nextUuid>>
       ELSE LET uuid == NewV4 IN
            /\ HANK' = Some([Unwrap(HANK) EXCEPT
                               !.scheduled_jobs = (uuid :> th[t].stub.job) @@ @])
            /\ nextUuid' = nextUuid + 1
            /\ th' = [th EXCEPT ![t].stub = [@ EXCEPT !.pc = "host", !.uuid = uuid]]
            /\ UNCHANGED <<lock, poisoned>>
    /\ UNCHANGED <<self, used, db>>

add_cron(t) == Added(t, "cron")
add_one_shot(t) == Added(t, "one_shot")

\* what a host function call evaluates to: Ok(output) or Err(error)
HostAnswers == {"ok", "err"}

\* the guard an outbound stub holds while it calls the host
StubGuard(kind) == IF kind \in {"cron", "one_shot"} THEN "write" ELSE "none"

RequestedUnwrapped(t, kind, answer) ==
    /\ th[t].stub.pc = "host" /\ th[t].stub.kind = kind
    /\ IF answer = "err"
       THEN Panic(t, StubGuard(kind), "panic")
       ELSE /\ th' = [th EXCEPT ![t].stub = [NoStub EXCEPT !.res = "ok"]]
            /\ lock' = Dropped(lock, t, StubGuard(kind))
            /\ poisoned' = poisoned
    /\ UNCHANGED <<HANK, self, nextUuid, used, db>>

\* the host function `kind` answers the request of the stub; `let _ =` drops
\* the answer whatever it is, the stub returns and the guard it holds, if
\* any, is dropped
Requested(t, kind, answer) ==
    /\ th[t].stub.pc = "host" /\ th[t].stub.kind = kind
    /\ answer \in HostAnswers
    /\ th' = [th EXCEPT ![t].stub = [NoStub EXCEPT !.res = "ok"]]
    /\ lock' = Dropped(lock, t, StubGuard(kind))
    /\ UNCHANGED <<HANK, poisoned, self, nextUuid, used, db>>

host_cron(t, answer) == Requested(t, "cron", answer)
host_one_shot(t, answer) == Requested(t, "one_shot", answer)

\* ---- the stateless fire-and-forget stubs ----------------------------------
\* Hank::send_message, react, reload_plugin, unload_plugin, instruct_plugin:
\* called from a handler or job body or from plugin code outside any entry
\* point; the stub builds its input and calls the host function
Sent(t, kind) ==
    /\ th[t].pc \in {"idle", "done", "run"}
    /\ th[t].stub.pc = "none"
    /\ th' = [th EXCEPT ![t].stub = [NoStub EXCEPT !.pc = "host", !.kind = kind]]
    /\ UNCHANGED <<HANK, lock, poisoned, self, nextUuid, used, db>>

send_message(t) == Sent(t, "send_message")
react(t) == Sent(t, "react")
reload_plugin(t) == Sent(t, "reload_plugin")
unload_plugin(t) == Sent(t, "unload_plugin")
instruct_plugin(t) == Sent(t, "instruct_plugin")

host_send_message(t, answer) == Requested(t, "send_message", answer)
host_react(t, answer) == Requested(t, "react", answer)
host_reload_plugin(t, answer) == Requested(t, "reload_plugin", answer)
host_unload_plugin(t, answer) == Requested(t, "unload_plugin", answer)
host_instruct_plugin(t, answer) == Requested(t, "instruct_plugin", answer)

\* ---- Hank::db_query and Hank::db_fetch -------------------------------------
\* the texts of a row: "1" and "2" are JSON of the row type T, "x" is not
Rows == {"1", "2", "x"}
\* host-reported error strings
Errors == {"e1", "e2"}

RowSeqs == UNION {[1..n -> Rows] : n \in 0..MaxRows}

\* hank_types::database::Results and its Default
Results(rows) == [rows |-> rows]
DefaultResults == Results(<<>>)

\* hank_types::DbQueryOutput { results, error }
DbQueryOutput ==
    [results : {None} \cup {Some(Results(rows)) : rows \in RowSeqs},
     error : {None} \cup {Some(e) : e \in Errors}]

\* what `unsafe { db_query(Prost(input)) }` evaluates to: Err (None here) when
\* the host call itself fails, else Ok(output)
HostOutputs == {None} \cup {Some(o) : o \in DbQueryOutput}

\* Result<_, String>, and a call that panicked instead of returning
Ok(v) == [tag |-> "Ok", val |-> v, err |-> ""]
Err(e) == [tag |-> "Err", val |-> <<>>, err |-> e]
Panicked == [tag |-> "panic", val |-> <<>>, err |-> ""]

\* Option::unwrap_or_default
UnwrapOrDefault(o, default) == IF o = None THEN default ELSE Unwrap(o)

\* serde_json::from_str::<T>(&s), as an Option: the value, or None for Err
FromStr(s) ==
    CASE s = "1" -> Some(1)
      [] s = "2" -> Some(2)
      [] OTHER -> None

DbQueryReturnResultsFirst(output) ==
    IF output = None THEN Panicked
    ELSE LET results == Unwrap(output).results
             error == Unwrap(output).error
         IN  IF results # None THEN Ok(Unwrap(results))
             ELSE IF error # None THEN Err(Unwrap(error))
             ELSE Ok(DefaultResults)

\* Hank::db_query from `output.unwrap()` on
DbQueryReturn(output) ==
    IF output = None THEN Panicked
    ELSE LET results == Unwrap(output).results
             error == Unwrap(output).error
         IN  IF error # None THEN Err(Unwrap(error))
             ELSE Ok(UnwrapOrDefault(results, DefaultResults))

Parses(s) == FromStr(s) # None

DbFetchReturnSkipsMalformed(output) ==
    IF output = None THEN Panicked
    ELSE LET results == Unwrap(output).results
             error == Unwrap(output).error
             rows == SelectSeq(UnwrapOrDefault(results, DefaultResults).rows, Parses)
         IN  IF error # None THEN Err(Unwrap(error))
             ELSE Ok([i \in DOMAIN rows |-> Unwrap(FromStr(rows[i]))])

\* Hank::db_fetch from `output.unwrap()` on; the `unwrap` of a row that does
\* not parse panics
DbFetchReturn(output) ==
    IF output = None THEN Panicked
    ELSE LET results == Unwrap(output).results
             error == Unwrap(output).error
             rows == UnwrapOrDefault(results, DefaultResults).rows
         IN  IF error # None THEN Err(Unwrap(error))
             ELSE IF \E i \in DOMAIN rows : FromStr(rows[i]) = None THEN Panicked
             ELSE Ok([i \in DOMAIN rows |-> Unwrap(FromStr(rows[i]))])

\* Hank::db_query / Hank::db_fetch is called and sends its request
DbCalled(fn) ==
    /\ db.pc \in {"idle", "done"}
    /\ db' = [NoCall EXCEPT !.pc = "host", !.fn = fn]
    /\ UNCHANGED <<HANK, lock, poisoned, self, th, nextUuid, used>>

db_query == DbCalled("db_query")
db_fetch == DbCalled("db_fetch")

\* the host function db_query answers
host_db_query(output) ==
    /\ db.pc = "host"
    /\ db' = [db EXCEPT !.pc = "answered", !.output = output]
    /\ UNCHANGED <<HANK, lock, poisoned, self, th, nextUuid, used>>

db_query_returns ==
    /\ db.pc = "answered" /\ db.fn = "db_query"
    /\ db' = [db EXCEPT !.pc = "done", !.ret = Some(DbQueryReturn(db.output))]
    /\ UNCHANGED <<HANK, lock, poisoned, self, th, nextUuid, used>>

db_fetch_returns ==
    /\ db.pc = "answered" /\ db.fn = "db_fetch"
    /\ db' = [db EXCEPT !.pc = "done", !.ret = Some(DbFetchReturn(db.output))]
    /\ UNCHANGED <<HANK, lock, poisoned, self, th, nextUuid, used>>

\* ---- the specifications ---------------------------------------------------
Construction ==
    \/ \E t \in Threads, m \in Metadatas : HankNew(t, m)
    \/ \E t \in Threads, h \in Fn0 : register_install_handler(t, h)
    \/ \E t \in Threads, h \in Fn0 : register_initialize_handler(t, h)
    \/ \E t \in Threads, h \in FnMsg : register_chat_message_handler(t, h)
    \/ \E t \in Threads, h \in FnCmd : register_chat_command_handler(t, h)

Runtime ==
    \/ \E t \in Threads : start(t)
    \/ \E t \in Threads : start_store(t)
    \/ \E t \in Threads : read_lock(t)
    \/ \E t \in Threads : write_lock(t)
    \/ \E t \in Threads, ctx \in BOOLEAN, msg \in BOOLEAN : handle_chat_command(t, ctx, msg)
    \/ \E t \in Threads : handle_chat_command_dispatch(t)
    \/ \E t \in Threads, msg \in BOOLEAN : handle_chat_message(t, msg)
    \/ \E t \in Threads : handle_chat_message_dispatch(t)
    \/ \E t \in Threads : handle_get_metadata(t)
    \/ \E t \in Threads : handle_get_metadata_reply(t)
    \/ \E t \in Threads : handle_install(t)
    \/ \E t \in Threads : handle_install_dispatch(t)
    \/ \E t \in Threads : handle_initialize(t)
    \/ \E t \in Threads : handle_initialize_dispatch(t)
    \/ \E t \in Threads, sj \in {"none", "cron", "one_shot"}, id \in Uuids :
          handle_scheduled_job(t, sj, id)
    \/ \E t \in Threads : handle_scheduled_job_dispatch(t)
    \/ \E t \in Threads : handler_returns(t)
    \/ \E t \in Threads, job \in Fn0 : cron(t, job)
    \/ \E t \in Threads, job \in Fn0 : one_shot(t, job)
    \/ \E t \in Threads : stub_write(t)
    \/ \E t \in Threads : add_cron(t)
    \/ \E t \in Threads : add_one_shot(t)
    \/ \E t \in Threads, answer \in HostAnswers : host_cron(t, answer)
    \/ \E t \in Threads, answer \in HostAnswers : host_one_shot(t, answer)

\* the host calls the entry points one at a time: one thread of control
Next == Construction \/ Runtime

Spec == Init /\ [][Next]_vars

\* a plugin with every hook registered, before start
Constructed ==
    [New("mA") EXCEPT !.install_handler = Some("f1"),
                      !.initialize_handler = Some("f2"),
                      !.chat_message_handler = Some("m1"),
                      !.chat_command_handler = Some("c1")]

\* two threads of control call start, the entry points and the stubs of the
\* constructed plugin
InitConc ==
    /\ HANK = None
    /\ lock = [writer |-> 0, readers |-> {}]
    /\ poisoned = FALSE
    /\ self = Some(Constructed)
    /\ th = [t \in ConcThreads |-> Idle]
    /\ nextUuid = 1
    /\ used = [new |-> {"mA"}, reg |-> 4]
    /\ db = NoCall

NextConc == Runtime

SpecConc == InitConc /\ [][NextConc]_vars

\* the constructed plugin, whose handler and job bodies (and whose code
\* outside the entry points) also call the stateless fire-and-forget stubs,
\* and whose handler and job bodies may panic
InitPlugin ==
    /\ HANK = None
    /\ lock = [writer |-> 0, readers |-> {}]
    /\ poisoned = FALSE
    /\ self = Some(Constructed)
    /\ th = [t \in {1} |-> Idle]
    /\ nextUuid = 1
    /\ used = [new |-> {"mA"}, reg |-> 4]
    /\ db = NoCall

Outbound ==
    \/ \E t \in Threads : send_message(t)
    \/ \E t \in Threads : react(t)
    \/ \E t \in Threads : reload_plugin(t)
    \/ \E t \in Threads : unload_plugin(t)
    \/ \E t \in Threads : instruct_plugin(t)
    \/ \E t \in Threads, answer \in HostAnswers : host_send_message(t, answer)
    \/ \E t \in Threads, answer \in HostAnswers : host_react(t, answer)
    \/ \E t \in Threads, answer \in HostAnswers : host_reload_plugin(t, answer)
    \/ \E t \in Threads, answer \in HostAnswers : host_unload_plugin(t, answer)
    \/ \E t \in Threads, answer \in HostAnswers : host_instruct_plugin(t, answer)

NextPlugin == Runtime \/ Outbound \/ \E t \in Threads : handler_panics(t)

SpecPlugin == InitPlugin /\ [][NextPlugin]_vars

\* plugin code queries the database: the stubs touch no plugin state
NextDb ==
    \/ db_query
    \/ db_fetch
    \/ \E output \in HostOutputs : host_db_query(output)
    \/ db_query_returns
    \/ db_fetch_returns

SpecDb == Init /\ [][NextDb]_vars

\* ---- what the claims speak of ----------------------------------------------
HookEps == {"install", "initialize", "chat_message", "chat_command"}

\* the slot of hook ep in the state hank
HookSlot(hank, ep) ==
    CASE ep = "install" -> hank.install_handler
      [] ep = "initialize" -> hank.initialize_handler
      [] ep = "chat_message" -> hank.chat_message_handler
      [] ep = "chat_command" -> hank.chat_command_handler

\* the payload of the call in record r carries what its handler is called with
PayloadOk(r) ==
    CASE r.ep = "chat_message" -> r.arg.msg
      [] r.ep = "chat_command" -> r.arg.ctx /\ r.arg.msg
      [] OTHER -> TRUE

\* the scheduled-job table of the installed state
Jobs == Unwrap(HANK).scheduled_jobs

\* thread t has looked at the state under its guard in this step
Dispatches(t, ep) ==
    th[t].ep = ep /\ th[t].pc = "locked" /\ th'[t].pc # "locked" /\ HANK # None

\* thread t is inside the write section of Hank::cron / Hank::one_shot
InInsert(t) == th[t].stub.pc \in {"locked", "host"}

HoldsRead(t) == th[t].guard = "read"
HoldsWrite(t) == th[t].guard = "write" \/ InInsert(t)

\* C1: a dispatch of install, initialize, chat-message or chat-command on the
\* installed state calls the handler held in that hook's slot and no other:
\* with the slot unset it calls nothing and returns the empty ack; with the
\* slot set (and the payload carrying what the handler takes) it calls that
\* handler; while the handler runs nothing else is called, and when it
\* returns the entry point returns the empty ack.
C1_DispatchInvokesRegisteredHandler ==
    [][\A t \in Threads :
         /\ \A ep \in HookEps : Dispatches(t, ep) =>
               LET slot == HookSlot(Unwrap(HANK), ep) IN
               /\ th'[t].invoked \in {None, slot}
               /\ slot = None =>
                     th'[t].pc = "done" /\ th'[t].result = "ack" /\ th'[t].invoked = None
               /\ (slot # None /\ PayloadOk(th[t])) =>
                     th'[t].pc = "run" /\ th'[t].invoked = slot
         /\ (th[t].ep \in HookEps /\ th[t].pc = "lock") => th'[t].invoked = None
         /\ (th[t].ep \in HookEps /\ th[t].pc = "run") =>
               /\ th'[t].invoked = th[t].invoked
               /\ (th'[t].pc = "done" /\ th'[t].stub.res \notin {"relock", "panic"}) =>
                     th'[t].result = "ack"
      ]_vars

\* an install dispatch has called f1 and returned the ack, while the
\* initialize slot holds another fn()
C1_Witness ==
    \E t \in Threads :
        /\ th[t].ep = "install" /\ th[t].pc = "done" /\ th[t].result = "ack"
        /\ th[t].invoked = Some("f1")
        /\ HANK # None /\ Unwrap(HANK).initialize_handler = Some("f2")

\* C2: Hank::cron / Hank::one_shot called from inside any dispatched handler
\* or job takes the write lock; the call never blocks forever and never
\* aborts on the guard its own dispatcher holds.
C2_StubInHandlerTakesLock ==
    \A t \in Threads : th[t].pc # "deadlock" /\ th[t].stub.res # "relock"

\* C3: the write lock is held only while Hank::cron / Hank::one_shot inserts
\* or start stores the state, never while a handler or job body runs.
C3_WriteLockOnlyForInsert ==
    \A t \in Threads :
        lock.writer = t =>
            \/ InInsert(t)
            \/ th[t].ep = "start" /\ th[t].pc = "locked"

\* C4: handle_initialize holds the read lock only while it copies the
\* handler out; from the moment the handler starts, handle_initialize holds
\* no guard (a write guard in that thread is that of a stub the handler
\* called).
C4_InitializeRunsUnlocked ==
    \A t \in Threads :
        th[t].ep = "initialize" =>
            /\ th[t].guard # "write"
            /\ th[t].guard = "read" => th[t].pc = "locked"
            /\ th[t].pc \in {"run", "deadlock", "done"} =>
                  /\ th[t].guard = "none"
                  /\ t \notin lock.readers
                  /\ lock.writer = t => InInsert(t)

\* the initialize handler runs and is inside Hank::cron / Hank::one_shot,
\* which has inserted its entry
C4_Witness ==
    \E t \in Threads :
        /\ th[t].ep = "initialize" /\ th[t].pc = "run" /\ th[t].invoked # None
        /\ th[t].stub.pc = "host"

\* C5: a scheduled-job delivery (cron echo or one-shot echo) whose identifier
\* is a key of the table calls the job registered under it, once, and no
\* other job.
C5_ReplayInvokesRegisteredJob ==
    [][\A t \in Threads :
         /\ (Dispatches(t, "scheduled_job") /\ th[t].arg.id \in DOMAIN Jobs) =>
               th'[t].pc = "run" /\ th'[t].invoked = Some(Jobs[th[t].arg.id])
         /\ (th[t].ep = "scheduled_job" /\ th[t].pc = "run") =>
               th'[t].invoked = th[t].invoked
      ]_vars

\* a one-shot echo of a registered identifier has called its job f2 and
\* returned, while the table holds f1 under another identifier
C5_Witness ==
    \E t \in Threads :
        /\ th[t].ep = "scheduled_job" /\ th[t].pc = "done" /\ th[t].result = "ack"
        /\ th[t].arg.sj = "one_shot" /\ th[t].invoked = Some("f2")
        /\ HANK # None /\ th[t].arg.id \in DOMAIN Jobs /\ Jobs[th[t].arg.id] = "f2"
        /\ \E k \in DOMAIN Jobs : Jobs[k] = "f1"

\* C6: every registration inserts under an identifier that no earlier
\* registration used: the table gains exactly one key, bound to the job
\* registered, and keeps every entry it had.
C6_RegistrationAddsFreshEntry ==
    [][\A t \in Threads :
         (th[t].stub.pc = "locked" /\ th'[t].stub.pc = "host") =>
            LET old == Jobs
                new == Unwrap(HANK').scheduled_jobs
                id == th'[t].stub.uuid
            IN  /\ id \notin DOMAIN old
                /\ id \notin 1..(nextUuid - 1)
                /\ DOMAIN new = DOMAIN old \cup {id}
                /\ Cardinality(DOMAIN new) = Cardinality(DOMAIN old) + 1
                /\ new[id] = th[t].stub.job
                /\ \A k \in DOMAIN old : new[k] = old[k]
      ]_vars

\* a one-shot registration has inserted the second entry of the table
C6_Witness ==
    \E t \in Threads :
        /\ th[t].stub.pc = "host" /\ th[t].stub.kind = "one_shot"
        /\ HANK # None /\ Cardinality(DOMAIN Jobs) = 2

\* C7: a scheduled-job delivery whose identifier is no key of the table calls
\* no job, leaves the state as it was, does not panic and returns the empty
\* ack.
C7_UnknownIdIsNoOp ==
    [][\A t \in Threads :
         (Dispatches(t, "scheduled_job") /\ th[t].arg.id \notin DOMAIN Jobs) =>
            /\ th'[t].pc = "done" /\ th'[t].result = "ack" /\ th'[t].invoked = None
            /\ HANK' = HANK /\ poisoned' = poisoned /\ lock'.writer = 0
      ]_vars

\* a delivery of an identifier unknown to a non-empty table has returned the ack
C7_Witness ==
    \E t \in Threads :
        /\ th[t].ep = "scheduled_job" /\ th[t].pc = "done" /\ th[t].arg.sj # "none"
        /\ th[t].result = "ack" /\ th[t].invoked = None
        /\ HANK # None /\ DOMAIN Jobs # {} /\ th[t].arg.id \notin DOMAIN Jobs

\* C8: while the state is Uninitialized every entry point other than start,
\* and Hank::cron / Hank::one_shot, aborts: none returns normally, none
\* calls anything.
C8_UninitializedAborts ==
    HANK = None =>
        \A t \in Threads :
            /\ (th[t].ep \notin {"idle", "start"} /\ th[t].pc = "done") =>
                  th[t].result = "abort"
            /\ th[t].pc # "run"
            /\ th[t].stub.res # "ok"

\* C9: once a state is installed no later start replaces it: metadata, hook
\* slots and the entries of the table stay those of the first instance.
C9_InstalledOnce ==
    [][HANK # None =>
         /\ HANK' # None
         /\ \A f \in {"metadata", "install_handler", "initialize_handler",
                      "chat_message_handler", "chat_command_handler"} :
               Unwrap(HANK')[f] = Unwrap(HANK)[f]
         /\ \A k \in DOMAIN Jobs :
               k \in DOMAIN Unwrap(HANK').scheduled_jobs
               /\ Unwrap(HANK').scheduled_jobs[k] = Jobs[k]
      ]_vars

\* C10: no thread holds a read guard while another holds the write guard (of
\* start, of handle_scheduled_job or of Hank::cron / Hank::one_shot), and at
\* most one thread holds the write guard: a reader that arrives during a
\* write stays at its `HANK.read()` until the writer is done.
C10_ReadersExcludeWriters ==
    \A r \in Threads, w \in Threads :
        /\ ~(HoldsRead(r) /\ HoldsWrite(w))
        /\ (HoldsWrite(r) /\ HoldsWrite(w)) => r = w

\* a read-only entry point waits at `HANK.read()` while another thread is
\* inside Hank::cron / Hank::one_shot with its entry inserted
C10_Witness ==
    \E r \in Threads, w \in Threads :
        /\ r # w
        /\ th[r].pc = "lock"
        /\ th[r].ep \in {"get_metadata", "chat_message", "chat_command", "install"}
        /\ th[w].stub.pc = "host"

\* the answer of the host to the call that has ended
Answer == Unwrap(db.output)

\* C11: when the host's answer carries an error string e, Hank::db_query and
\* Hank::db_fetch return Err(e), which carries no rows, whether or not the
\* answer also carries results (well-formed or not); they return Ok only
\* when the answer carries no error.
C11_ErrorStringSurfaced ==
    (db.pc = "done" /\ db.output # None) =>
        /\ Answer.error # None =>
              /\ Unwrap(db.ret).tag = "Err"
              /\ Unwrap(db.ret).err = Unwrap(Answer.error)
              /\ Unwrap(db.ret).val = <<>>
        /\ Unwrap(db.ret).tag = "Ok" => Answer.error = None

\* db_fetch has returned Err("e2") for an answer that carries the error e2
\* together with a row
C11_Witness ==
    /\ db.pc = "done" /\ db.fn = "db_fetch" /\ db.output # None
    /\ Answer.error = Some("e2")
    /\ Answer.results # None /\ Len(Unwrap(Answer.results).rows) = 1
    /\ db.ret = Some(Err("e2"))

\* C12: a chat-message delivery without a message, and a chat-command
\* delivery without a context or without a message, aborts, whether or not a
\* handler is registered for the hook; it never returns the empty ack.
C12_MissingPayloadAborts ==
    [][\A t \in Threads :
         (/\ th[t].ep \in {"chat_message", "chat_command"}
          /\ th[t].pc = "locked" /\ th'[t].pc # "locked"
          /\ ~PayloadOk(th[t])) =>
            th'[t].pc = "done" /\ th'[t].result = "abort"
      ]_vars

\* C13: once identifier id maps to job J in the table of the installed state
\* it maps to J in every later state, also after id has been delivered: no
\* step removes or rebinds an entry, the key set only grows.
C13_EntriesNeverRemoved ==
    [][HANK # None =>
         /\ HANK' # None
         /\ DOMAIN Jobs \subseteq DOMAIN Unwrap(HANK').scheduled_jobs
         /\ \A id \in DOMAIN Jobs : Unwrap(HANK').scheduled_jobs[id] = Jobs[id]
      ]_vars

\* the metadata descriptor and the four hook slots of a state
Registry(hank) ==
    <<hank.metadata, hank.install_handler, hank.initialize_handler,
      hank.chat_message_handler, hank.chat_command_handler>>

\* C14: after start no operation changes the metadata descriptor or a hook
\* slot of the installed state (so handle_get_metadata answers the same
\* descriptor on every call); the only component that changes is the
\* scheduled-job table, and only an insert of Hank::cron / Hank::one_shot
\* changes it.
C14_OnlyJobTableChanges ==
    [][HANK # None =>
         /\ HANK' # None
         /\ Registry(Unwrap(HANK')) = Registry(Unwrap(HANK))
         /\ Unwrap(HANK').scheduled_jobs # Jobs =>
               \E t \in Threads : th[t].stub.pc = "locked" /\ th'[t].stub.pc = "host"
      ]_vars

\* C15: while a register-cron or register-one-shot request is with the host,
\* the identifier the request carries is a key of the scheduled-job table of
\* the installed state and maps to the job being registered: the entry was
\* inserted before the request was sent.
C15_InsertedBeforeRequest ==
    \A t \in Threads :
        (th[t].stub.pc = "host" /\ th[t].stub.kind \in {"cron", "one_shot"}) =>
            /\ HANK # None
            /\ th[t].stub.uuid \in DOMAIN Jobs
            /\ Jobs[th[t].stub.uuid] = th[t].stub.job

\* the register-cron request of job f2 is with the host, which was sent the
\* request of f1 before
C15_Witness ==
    \E t \in Threads :
        /\ th[t].stub.pc = "host" /\ th[t].stub.kind = "cron" /\ th[t].stub.job = "f2"
        /\ HANK # None /\ Cardinality(DOMAIN Jobs) = 2
        /\ \E id \in DOMAIN Jobs : id # th[t].stub.uuid /\ Jobs[id] = "f1"

\* the fire-and-forget stubs
FireAndForget ==
    {"send_message", "react", "cron", "one_shot", "reload_plugin", "unload_plugin",
     "instruct_plugin"}

\* the step in which the stub thread t is in gets the host's answer
Answered(t) == th[t].stub.pc = "host" /\ th'[t] # th[t]

\* C16: whatever the host answers to the request of a fire-and-forget stub,
\* a failure included, the stub returns normally to its caller: the entry
\* point it was called from is not aborted and goes on to return its empty
\* ack when the handler returns, the installed state, the poison flag and the
\* read guards are as before the answer, the write guard of Hank::cron /
\* Hank::one_shot is dropped and the entry the stub inserted stays in the
\* table.
C16_HostFailureDiscarded ==
    [][\A t \in Threads :
         /\ Answered(t) =>
               /\ th[t].stub.kind \in FireAndForget
               /\ th'[t] = [th[t] EXCEPT !.stub = [NoStub EXCEPT !.res = "ok"]]
               /\ HANK' = HANK /\ poisoned' = poisoned
               /\ lock' = IF th[t].stub.kind \in {"cron", "one_shot"}
                          THEN [lock EXCEPT !.writer = 0]
                          ELSE lock
               /\ th[t].stub.kind \in {"cron", "one_shot"} =>
                     /\ HANK' # None
                     /\ th[t].stub.uuid \in DOMAIN Unwrap(HANK').scheduled_jobs
                     /\ Unwrap(HANK').scheduled_jobs[th[t].stub.uuid] = th[t].stub.job
         /\ (th[t].pc = "run" /\ th[t].stub.pc = "none" /\ th[t].stub.res = "ok") =>
               ENABLED (handler_returns(t) /\ th'[t].result = "ack")
      ]_vars

\* the register-one-shot request of the initialize handler is with the host,
\* whose failure makes the stub return normally; the rejected entry is in
\* the table
C16_Witness ==
    \E t \in Threads :
        /\ th[t].ep = "initialize" /\ th[t].pc = "run"
        /\ th[t].stub.pc = "host" /\ th[t].stub.kind = "one_shot"
        /\ HANK # None /\ th[t].stub.uuid \in DOMAIN Jobs
        /\ ENABLED (host_one_shot(t, "err") /\ th'[t].stub.res = "ok" /\ HANK' = HANK)

\* the plugin under construction
Builder == Unwrap(self)

\* C17: every call register_X(h) leaves a plugin that differs from the one
\* before in slot X alone, which holds h whatever it held before (last write
\* wins), so that X_handler() answers h and the other slots, the metadata
\* and the table are as they were; a plugin fresh from Hank::new has every
\* slot unset; start moves the plugin unchanged into the call and stores it
\* unchanged, so that dispatch finds the last handlers registered.
C17_RegisterSetsOnlyItsSlot ==
    \A t \in Threads :
        /\ (Free(t) /\ self # None /\ used.reg < MaxRegs) =>
              /\ \A h \in Fn0 :
                    /\ ENABLED register_install_handler(t, h)
                    /\ ~ ENABLED (/\ register_install_handler(t, h)
                                  /\ ~ (/\ self' = Some([Builder EXCEPT
                                                           !.install_handler = Some(h)])
                                        /\ install_handler(Unwrap(self')) = Some(h)))
                    /\ ENABLED register_initialize_handler(t, h)
                    /\ ~ ENABLED (/\ register_initialize_handler(t, h)
                                  /\ ~ (/\ self' = Some([Builder EXCEPT
                                                           !.initialize_handler = Some(h)])
                                        /\ initialize_handler(Unwrap(self')) = Some(h)))
              /\ \A h \in FnMsg :
                    /\ ENABLED register_chat_message_handler(t, h)
                    /\ ~ ENABLED (/\ register_chat_message_handler(t, h)
                                  /\ ~ (/\ self' = Some([Builder EXCEPT
                                                           !.chat_message_handler = Some(h)])
                                        /\ chat_message_handler(Unwrap(self')) = Some(h)))
              /\ \A h \in FnCmd :
                    /\ ENABLED register_chat_command_handler(t, h)
                    /\ ~ ENABLED (/\ register_chat_command_handler(t, h)
                                  /\ ~ (/\ self' = Some([Builder EXCEPT
                                                           !.chat_command_handler = Some(h)])
                                        /\ chat_command_handler(Unwrap(self')) = Some(h)))
        /\ \A m \in Metadatas :
              ~ ENABLED (/\ HankNew(t, m)
                         /\ ~ (/\ install_handler(Unwrap(self')) = None
                               /\ initialize_handler(Unwrap(self')) = None
                               /\ chat_message_handler(Unwrap(self')) = None
                               /\ chat_command_handler(Unwrap(self')) = None))
        /\ ~ ENABLED (start(t) /\ th'[t].held # self)
        /\ ~ ENABLED (start_store(t) /\ HANK' # th[t].held)

\* the install slot holds f2 after two calls of register_install_handler on
\* the one plugin constructed
C17_Witness ==
    /\ self # None /\ used.new = {"mA"} /\ used.reg = 2
    /\ install_handler(Builder) = Some("f2")
    /\ initialize_handler(Builder) = None
    /\ chat_message_handler(Builder) = None
    /\ chat_command_handler(Builder) = None

\* the rows of the answer
AnswerRows == IF Answer.results = None THEN <<>> ELSE Unwrap(Answer.results).rows

\* C18: for an answer with rows and no error, Hank::db_fetch returns one
\* decoded value per row, in row order, when every row parses; when a row is
\* malformed it returns no successful result at all, so neither an empty nor
\* a shortened one.
C18_FetchDecodesEachRow ==
    (db.pc = "done" /\ db.fn = "db_fetch" /\ db.output # None /\ Answer.error = None) =>
        IF \A i \in DOMAIN AnswerRows : AnswerRows[i] \in {"1", "2"}
        THEN /\ Unwrap(db.ret).tag = "Ok"
             /\ Len(Unwrap(db.ret).val) = Len(AnswerRows)
             /\ \A i \in DOMAIN AnswerRows :
                   /\ AnswerRows[i] = "1" => Unwrap(db.ret).val[i] = 1
                   /\ AnswerRows[i] = "2" => Unwrap(db.ret).val[i] = 2
        ELSE Unwrap(db.ret).tag # "Ok"

\* db_fetch has decoded the rows "2", "1" to 2, 1
C18_Witness ==
    /\ db.pc = "done" /\ db.fn = "db_fetch" /\ db.output # None
    /\ Answer.error = None /\ AnswerRows = <<"2", "1">>
    /\ db.ret = Some(Ok(<<2, 1>>))

\* C19: when a call of an entry point is aborted because its handler or job
\* failed, the lock of the state is left free of that call's guard and
\* unpoisoned, so that later calls can take it.
C19_HandlerPanicLeavesLockUsable ==
    [][\A t \in Threads :
         (th[t].pc = "run" /\ th'[t].pc = "done" /\ th'[t].result = "abort") =>
            /\ ~ poisoned'
            /\ lock'.writer # t /\ t \notin lock'.readers
      ]_vars

====
